---- MODULE Spec2Model ----
(***************************************************************************)
(* Constrained span-scoring chart of SemiSupervisedParsingLoss             *)
(* (pytorch/diora/net/trainer.py).  One behaviour is one scoring call:     *)
(* the arguments are fixed by Init, every step of the fill loop computes   *)
(* one chart cell (or trips the "Only one valid tree." assertion), and the *)
(* last step builds the value the call returns.                            *)
(*                                                                         *)
(* Scores are float32 tensors in the source; the model uses small          *)
(* integers, which float32 represents and adds exactly.                    *)
(***************************************************************************)
EXTENDS Integers, Sequences, FiniteSets, TLC

\* ------------------------------------------------------------------ bounds
MaxLen == 4        \* sentences.shape[1] ranges over 1..MaxLen
MaxBatch == 2      \* sentences.shape[0] ranges over 1..MaxBatch
MaxBatchLen == 3   \* batches of more than one sentence have length <= MaxBatchLen
MaxPot == 1        \* every split potential lies in 0..MaxPot
MaxHot == 2        \* at most MaxHot potentials of a call are non-zero
MaxSpans == 2      \* at most MaxSpans spans in a call's arguments (or one full tree)
MaxGold == 2       \* at most MaxGold annotated spans in a batch (info['spans'])

\* value every chart cell is created with: torch.full(..., 1, ...)
LeafValue == 1

Routines == {"get_score_for_spans", "get_score_for_spans_modified", "get_score_for_spans_given"}

VARIABLES
    routine,       \* which routine is running: a scoring routine or a helper
    args,          \* the arguments of a helper call (<<>> in a scoring call)
    length,        \* sentences.shape[1]
    batch_size,    \* sentences.shape[0]
    scalars,       \* scalars[<<level, pos, batch_idx, idx>>] = scalars[level][pos][batch_idx, idx]
    span_sets,     \* span_sets[batch_idx] = set(spans[batch_idx])
    root_list,     \* root_list[batch_idx] = sequence of <<pos, size>>
    chart,         \* chart[level][pos][batch_idx]
    level, pos,    \* loop counters of the fill loop
    pc,            \* "fill" | "return" | "done" | "error" | "lookup_error" | "call"
    result         \* the returned value once pc = "done"

vars == <<routine, args, length, batch_size, scalars, span_sets, root_list, chart, level, pos, pc, result>>

\* ------------------------------------------------------------- input sets
Batch(B) == 0..(B - 1)

\* all subsets of S with at most k elements
RECURSIVE SubsetsUpTo(_, _)
SubsetsUpTo(S, k) ==
    IF k = 0 THEN {{}}
    ELSE LET prev == SubsetsUpTo(S, k - 1)
         IN  prev \cup {T \cup {x} : T \in prev, x \in S}

\* the spans <<pos, size>> of a sentence of n tokens with size >= lo
Spans(n, lo) == {sp \in (0..(n - 1)) \X (lo..n) : sp[1] + sp[2] <= n}

\* the index set of the split potentials: level, pos, batch_idx, idx
Entries(n, B) ==
    {e \in (1..(n - 1)) \X (0..(n - 1)) \X Batch(B) \X (0..(n - 1)) :
        e[2] + e[1] < n /\ e[4] < e[1]}

\* every binary bracketing of the span <<p, s>>, as the set of the splits
\* <<level, pos, idx>> of its internal nodes
RECURSIVE Bracketings(_, _)
Bracketings(p, s) ==
    IF s = 1 THEN {{}}
    ELSE UNION {
            {{<<s - 1, p, k - 1>>} \cup L \cup R :
                L \in Bracketings(p, k), R \in Bracketings(p + k, s - k)}
            : k \in 1..(s - 1)}

\* the spans of the internal nodes of a bracketing
SpansOf(T) == {<<sp[2], sp[1] + 1>> : sp \in T}

\* the batches of span lists with at most m spans (of size >= lo) in all
SpanLists(n, B, lo, m) ==
    LET flat == UNION {[1..k -> Batch(B) \X Spans(n, lo)] : k \in 0..m}
        ordered == {f \in flat : \A i \in 1..(Len(f) - 1) : f[i][1] <= f[i + 1][1]}
        listOf(f, b) ==
            LET mine == SelectSeq(f, LAMBDA x : x[1] = b)
            IN  [i \in 1..Len(mine) |-> mine[i][2]]
    IN  {[b \in Batch(B) |-> listOf(f, b)] : f \in ordered}

\* ------------------------------------------------ canonical tree builder
\* concatenation of the sequences f[1], ..., f[n]
RECURSIVE Concat(_, _)
Concat(f, n) == IF n = 0 THEN <<>> ELSE Concat(f, n - 1) \o f[n]

\* the left chain from the longest span down
LeftChain_descending(t) ==
    [k \in 1..(IF t[2] >= 2 THEN t[2] - 1 ELSE 0) |-> <<t[1], t[2] - k + 1>>]

\* for i in range(2, l+1, 1): tmp.append((start, i))
LeftChain(t) == [k \in 1..(IF t[2] >= 2 THEN t[2] - 1 ELSE 0) |-> <<t[1], k + 1>>]

\* the right chain anchored at the span's start
RightChain_from_start(t) ==
    [i \in 1..(IF t[2] >= 2 THEN t[2] - 1 ELSE 0) |-> <<t[1], i + 1>>]

\* for i in range(1, l, 1): tmp.append((end - i, i+1)), end = start + l - 1
RightChain(t) ==
    LET start == t[1]
        l == t[2]
        end == start + l - 1
    IN  [i \in 1..(IF l >= 2 THEN l - 1 ELSE 0) |-> <<end - i, i + 1>>]

makeLeftTree(spans) ==
    [b \in DOMAIN spans |->
        Concat([j \in 1..Len(spans[b]) |-> LeftChain(spans[b][j])], Len(spans[b]))]

makeRightTree(spans) ==
    [b \in DOMAIN spans |->
        Concat([j \in 1..Len(spans[b]) |-> RightChain(spans[b][j])], Len(spans[b]))]

\* span_sets = [set(span_lst) for span_lst in spans]
SetOf(seq) == {seq[i] : i \in DOMAIN seq}
SpanSets(spans) == [b \in DOMAIN spans |-> SetOf(spans[b])]

\* ------------------------------------------------- one cell of the chart
\* left_in_set with the left child's size taken one too small
left_in_set_short(S, lv, p, idx) ==
    LET l_level == idx
        l_pos == p
        l_size == l_level
        l_span == <<l_pos, l_size>>
    IN  l_size = 1 \/ l_span \in S

\* l_size == 1 or l_span in span_sets[batch_idx]
left_in_set(S, lv, p, idx) ==
    LET l_level == idx
        l_pos == p
        l_size == l_level + 1
        l_span == <<l_pos, l_size>>
    IN  l_size = 1 \/ l_span \in S

\* right_in_set with the right child's position taken one too small
right_in_set_shifted(S, lv, p, idx) ==
    LET r_level == lv - idx - 1
        r_pos == p + idx
        r_size == r_level + 1
        r_span == <<r_pos, r_size>>
    IN  r_size = 1 \/ r_span \in S

\* r_size == 1 or r_span in span_sets[batch_idx]
right_in_set(S, lv, p, idx) ==
    LET r_level == lv - idx - 1
        r_pos == p + idx + 1
        r_size == r_level + 1
        r_span == <<r_pos, r_size>>
    IN  r_size = 1 \/ r_span \in S

\* to_choose_loop without the assertion: a later satisfying idx silently
\* replaces an earlier one
RECURSIVE to_choose_loop_silent(_, _, _, _)
to_choose_loop_silent(S, lv, p, n) ==
    IF n = 0
    THEN [to_choose |-> 0, to_choose_assert |-> FALSE, raised |-> FALSE]
    ELSE LET prev == to_choose_loop_silent(S, lv, p, n - 1)
             idx == n - 1
         IN  IF left_in_set(S, lv, p, idx) /\ right_in_set(S, lv, p, idx)
             THEN [to_choose |-> idx, to_choose_assert |-> TRUE, raised |-> FALSE]
             ELSE prev

\* The book-keeping of one batch element after the first n rounds of the
\* `for idx in range(N)` loop: to_choose, to_choose_assert, and whether
\* the assertion `to_choose_assert[batch_idx] is False` has failed.
RECURSIVE to_choose_loop(_, _, _, _)
to_choose_loop(S, lv, p, n) ==
    IF n = 0
    THEN [to_choose |-> 0, to_choose_assert |-> FALSE, raised |-> FALSE]
    ELSE LET prev == to_choose_loop(S, lv, p, n - 1)
             idx == n - 1
         IN  IF prev.raised THEN prev
             ELSE IF left_in_set(S, lv, p, idx) /\ right_in_set(S, lv, p, idx)
                  THEN [to_choose |-> idx,
                        to_choose_assert |-> TRUE,
                        raised |-> prev.to_choose_assert]
                  ELSE prev

\* ps reading the right child one position too far left
ps_right_shifted(ch, sc, b, lv, p) ==
    [idx \in 0..(lv - 1) |->
        ch[idx][p][b] + ch[lv - idx - 1][p + idx][b] + sc[<<lv, p, b, idx>>]]

\* ps adding the split potentials of the first batch element for everybody
ps_first_potentials(ch, sc, b, lv, p) ==
    [idx \in 0..(lv - 1) |->
        ch[idx][p][b] + ch[lv - idx - 1][p + idx + 1][b] + sc[<<lv, p, 0, idx>>]]

\* ps = lps + rps + sps, the row of batch element b: one combined score per idx
ps(ch, sc, b, lv, p) ==
    [idx \in 0..(lv - 1) |->
        ch[idx][p][b] + ch[lv - idx - 1][p + idx + 1][b] + sc[<<lv, p, b, idx>>]]

\* argmax picking the first index holding the minimum
argmax_of_min(row) ==
    CHOOSE i \in DOMAIN row :
        /\ \A j \in DOMAIN row : row[j] >= row[i]
        /\ \A j \in DOMAIN row : j < i => row[j] > row[i]

\* torch.argmax over a row: the first index holding the maximum
argmax(row) ==
    CHOOSE i \in DOMAIN row :
        /\ \A j \in DOMAIN row : row[j] <= row[i]
        /\ \A j \in DOMAIN row : j < i => row[j] < row[i]

\* valmax_spans with the forced split ignored: always the argmax
valmax_spans_no_override(row, tc) == row[argmax(row)]

\* get_score_for_spans: argmax masked by not_to_choose_assert, plus to_choose
argmax2(row, tc) ==
    LET not_to_choose_assert == ~tc.to_choose_assert
        argmax1 == argmax(row) * (IF not_to_choose_assert THEN 1 ELSE 0)
    IN  argmax1 + tc.to_choose

\* valmax = ps[range(batch_size), argmax2]
valmax_spans(row, tc) == row[argmax2(row, tc)]

\* valmax_modified falling back to the argmax when no split was forced
valmax_modified_argmax(row, tc) ==
    IF tc.to_choose_assert THEN row[tc.to_choose] ELSE row[argmax(row)]

\* get_score_for_spans_modified: ps[range(batch_size), to_choose]
valmax_modified(row, tc) == row[tc.to_choose]

\* get_score_for_spans_given: ps[range(batch_size), to_choose]
valmax_given(row, tc) == row[tc.to_choose]

valmax(r, row, tc) ==
    CASE r = "get_score_for_spans" -> valmax_spans(row, tc)
      [] r = "get_score_for_spans_modified" -> valmax_modified(row, tc)
      [] r = "get_score_for_spans_given" -> valmax_given(row, tc)

\* a chart initialised to zeros
NewChart_zeros(n, B) ==
    [lv \in 0..(n - 1) |-> [p \in 0..(n - lv - 1) |-> [b \in Batch(B) |-> 0]]]

\* chart = [torch.full((length-i, batch_size), 1, ...) for i in range(length)]
NewChart(n, B) ==
    [lv \in 0..(n - 1) |-> [p \in 0..(n - lv - 1) |-> [b \in Batch(B) |-> LeafValue]]]

\* ------------------------------------------------------------------- Init
\* the constraint sets of a batch
ConstraintSets(n, B) ==
    {[b \in Batch(B) |-> {sp \in Spans(n, 2) : <<b, sp>> \in cs}] :
        cs \in SubsetsUpTo(Batch(B) \X Spans(n, 2), MaxSpans)}
    \cup {[b \in Batch(B) |-> IF b = c[1] THEN SpansOf(c[2]) ELSE {}] :
        c \in Batch(B) \X Bracketings(0, n)}
    \cup {SpanSets(makeLeftTree(gold)) : gold \in SpanLists(n, B, 1, MaxGold)}
    \cup {SpanSets(makeRightTree(gold)) : gold \in SpanLists(n, B, 1, MaxGold)}

\* A call's arguments.  The potentials are zero except at up to MaxHot
\* entries; the constraint sets hold up to MaxSpans spans over the whole
\* batch, or the spans of one complete bracketing for one batch element,
\* or the left or right chains of up to MaxGold annotated spans.
Init ==
    /\ routine \in Routines
    /\ args = <<>>
    /\ length \in 1..MaxLen
    /\ batch_size \in 1..MaxBatch
    /\ batch_size > 1 => length <= MaxBatchLen
    /\ \E hot \in SubsetsUpTo(Entries(length, batch_size), MaxHot) :
         \E v \in [hot -> 1..MaxPot] :
            scalars = [e \in Entries(length, batch_size) |-> IF e \in hot THEN v[e] ELSE 0]
    /\ span_sets \in ConstraintSets(length, batch_size)
    /\ root_list = [b \in Batch(batch_size) |-> <<>>]
    /\ chart = NewChart(length, batch_size)
    /\ level = 1
    /\ pos = 0
    /\ pc = IF length > 1 THEN "fill" ELSE "return"
    /\ result = <<>>

\* ---------------------------------------------------------------- actions
\* the book-keeping of batch element b at the current cell, after the idx loop
Book(b) == to_choose_loop(span_sets[b], level, pos, level)

\* How many rounds of the idx loop can read their potentials at the current
\* cell: spbatch = scalars[level][pos] and sp = spbatch[:, idx] fail where
\* the level, the position or the column idx does not exist.
Present ==
    LET missing == {idx \in 0..(level - 1) :
                       \E b \in Batch(batch_size) : <<level, pos, b, idx>> \notin DOMAIN scalars}
    IN  IF missing = {} THEN level ELSE CHOOSE idx \in missing : \A other \in missing : idx <= other

\* One round of `for pos in range(L)` that runs to its end: every potential
\* of the cell is read, the idx loop raises for no batch element;
\* chart[level][pos, :] = valmax.
FillCell(r) ==
    /\ pc = "fill"
    /\ routine = r
    /\ Present = level
    /\ \A b \in Batch(batch_size) : ~Book(b).raised
    /\ chart' = [chart EXCEPT ![level][pos] =
                    [b \in Batch(batch_size) |->
                        valmax(r, ps(chart, scalars, b, level, pos), Book(b))]]
    /\ IF pos + 1 < length - level
       THEN /\ pos' = pos + 1
            /\ level' = level
            /\ pc' = "fill"
       ELSE /\ pos' = 0
            /\ level' = level + 1
            /\ pc' = IF level + 1 < length THEN "fill" ELSE "return"
    /\ UNCHANGED <<routine, args, length, batch_size, scalars, span_sets, root_list, result>>

\* A round of `for pos in range(L)` in which the assertion fails for some
\* batch element in a round of the idx loop that has read its potentials:
\* AssertionError("Only one valid tree."), the cell is not written and the
\* call returns nothing.
RaiseOnlyOneValidTree ==
    /\ pc = "fill"
    /\ \E b \in Batch(batch_size) : to_choose_loop(span_sets[b], level, pos, Present).raised
    /\ pc' = "error"
    /\ UNCHANGED <<routine, args, length, batch_size, scalars, span_sets, root_list, chart, level, pos, result>>

\* A round of `for pos in range(L)` that cannot read a potential: the
\* lookup scalars[level][pos] or spbatch[:, idx] raises (KeyError or
\* IndexError) before the assertion of that idx round is evaluated; the
\* cell is not written and the call returns nothing.
RaiseLookupError ==
    /\ pc = "fill"
    /\ Present < level
    /\ \A b \in Batch(batch_size) : ~to_choose_loop(span_sets[b], level, pos, Present).raised
    /\ pc' = "lookup_error"
    /\ UNCHANGED <<routine, args, length, batch_size, scalars, span_sets, root_list, chart, level, pos, result>>

\* get_score_for_spans: return chart[-1][0]
ReturnRoot ==
    /\ pc = "return"
    /\ routine = "get_score_for_spans"
    /\ result' = chart[length - 1][0]
    /\ pc' = "done"
    /\ UNCHANGED <<routine, args, length, batch_size, scalars, span_sets, root_list, chart, level, pos>>

\* chart_roots_batch reading every root from the first batch element
chart_roots_batch_first(ch, rl) ==
    [bt \in DOMAIN rl |->
        [i \in 1..Len(rl[bt]) |-> ch[rl[bt][i][2] - 1][rl[bt][i][1]][0]]]

\* chart_roots.append(chart[int(root[1]-1)][int(root[0])][bt]) for every
\* root of every batch element
chart_roots_batch(ch, rl) ==
    [bt \in DOMAIN rl |->
        [i \in 1..Len(rl[bt]) |-> ch[rl[bt][i][2] - 1][rl[bt][i][1]][bt]]]

\* how many root spans the call's root_list may hold: what the constraint
\* sets leave of MaxSpans
RootBudget ==
    LET used == Cardinality({c \in Batch(batch_size) \X Spans(length, 2) : c[2] \in span_sets[c[1]]})
    IN  IF used < MaxSpans THEN MaxSpans - used ELSE 0

\* the annotated span lists whose left or right chains are the call's
\* constraint sets: forward_ passes info['spans'] as root_list with them
GoldLists ==
    {gold \in SpanLists(length, batch_size, 1, MaxGold) :
        \/ span_sets = SpanSets(makeLeftTree(gold))
        \/ span_sets = SpanSets(makeRightTree(gold))}

\* the root lists of a call
RootLists == SpanLists(length, batch_size, 1, RootBudget) \cup GoldLists

\* get_score_for_spans_modified / get_score_for_spans_given: the final loop
\* over root_list.  root_list is read by this loop only, so the model binds
\* the argument here.
ReturnRoots(r) ==
    /\ pc = "return"
    /\ routine = r
    /\ \E rl \in RootLists :
         /\ root_list' = rl
         /\ result' = chart_roots_batch(chart, rl)
    /\ pc' = "done"
    /\ UNCHANGED <<routine, args, length, batch_size, scalars, span_sets, chart, level, pos>>

Next ==
    \/ FillCell("get_score_for_spans")
    \/ FillCell("get_score_for_spans_modified")
    \/ FillCell("get_score_for_spans_given")
    \/ RaiseOnlyOneValidTree
    \/ ReturnRoot
    \/ ReturnRoots("get_score_for_spans_modified")
    \/ ReturnRoots("get_score_for_spans_given")

Spec == Init /\ [][Next]_vars

\* ------------------------------------------- calls with any potential batch
\* the index set of a potential batch laid out for a sentence of m words
\* with c columns more (c < 0: fewer) per cell than the level has splits
Shape(m, c, B) ==
    {e \in (1..(m - 1)) \X (0..(m - 1)) \X Batch(B) \X (0..m) :
        e[1] + e[2] < m /\ e[4] < e[1] + c}

Shapes(B) == {Shape(m, c, B) : m \in 1..MaxLen, c \in {-1, 0, 1}}

\* A call's arguments when the potential batch need not fit the sentence:
\* the potentials are laid out for any length and column count and are
\* zero except at up to one entry.
InitShape ==
    /\ routine \in Routines
    /\ args = <<>>
    /\ length \in 1..MaxLen
    /\ batch_size \in 1..MaxBatch
    /\ batch_size > 1 => length <= MaxBatchLen
    /\ \E shape \in Shapes(batch_size) :
         \E hot \in SubsetsUpTo(shape, 1) :
            scalars = [e \in shape |-> IF e \in hot THEN MaxPot ELSE 0]
    /\ span_sets \in ConstraintSets(length, batch_size)
    /\ root_list = [b \in Batch(batch_size) |-> <<>>]
    /\ chart = NewChart(length, batch_size)
    /\ level = 1
    /\ pos = 0
    /\ pc = IF length > 1 THEN "fill" ELSE "return"
    /\ result = <<>>

NextShape ==
    \/ Next
    \/ RaiseLookupError

SpecShape == InitShape /\ [][NextShape]_vars

\* ------------------------------------------------------ whole-call values
\* The value the fill loop of routine r stores in cell (lv, p) for batch
\* element b when b's constraint set is S and no assertion fails.
RECURSIVE CellValue(_, _, _, _, _, _)
CellValue(r, sc, S, b, lv, p) ==
    IF lv = 0 THEN LeafValue
    ELSE LET row == [idx \in 0..(lv - 1) |->
                        CellValue(r, sc, S, b, idx, p)
                        + CellValue(r, sc, S, b, lv - idx - 1, p + idx + 1)
                        + sc[<<lv, p, b, idx>>]]
         IN  valmax(r, row, to_choose_loop(S, lv, p, lv))

\* The split index get_score_for_spans selects in cell (lv, p) for batch
\* element b when b's constraint set is S.
SplitChosen(sc, S, b, lv, p) ==
    LET r == "get_score_for_spans"
        row == [idx \in 0..(lv - 1) |->
                    CellValue(r, sc, S, b, idx, p)
                    + CellValue(r, sc, S, b, lv - idx - 1, p + idx + 1)
                    + sc[<<lv, p, b, idx>>]]
    IN  argmax2(row, to_choose_loop(S, lv, p, lv))

\* The spans of the tree get_score_for_spans selects below cell (lv, p)
\* with an empty constraint set: the argmax split at every cell on the way
\* down from (lv, p).
RECURSIVE ArgmaxSpans(_, _, _, _)
ArgmaxSpans(sc, b, lv, p) ==
    IF lv = 0 THEN {}
    ELSE LET idx == SplitChosen(sc, {}, b, lv, p)
         IN  {<<p, lv + 1>>}
             \cup ArgmaxSpans(sc, b, idx, p)
             \cup ArgmaxSpans(sc, b, lv - idx - 1, p + idx + 1)

\* ------------------------------------------------------- claim vocabulary
RECURSIVE SumOver(_, _)
SumOver(f, D) ==
    IF D = {} THEN 0
    ELSE LET x == CHOOSE y \in D : TRUE IN f[x] + SumOver(f, D \ {x})

MaxOf(V) == CHOOSE m \in V : \A v \in V : v <= m

\* the sum of the split potentials of batch element b along bracketing T
PotentialSum(sc, b, T) == SumOver([sp \in T |-> sc[<<sp[1], sp[2], b, sp[3]>>]], T)

\* the largest potential sum over the bracketings of the whole sentence
BestPotentialSum(sc, b, n) == MaxOf({PotentialSum(sc, b, T) : T \in Bracketings(0, n)})

\* the value of bracketing T evaluated bottom-up: every leaf contributes
\* LeafValue, every internal node its own split potential
RECURSIVE TreeValue(_, _, _, _, _)
TreeValue(sc, b, T, lv, p) ==
    IF lv = 0 THEN LeafValue
    ELSE LET idx == CHOOSE k \in 0..(lv - 1) : <<lv, p, k>> \in T
         IN  TreeValue(sc, b, T, idx, p)
             + TreeValue(sc, b, T, lv - idx - 1, p + idx + 1)
             + sc[<<lv, p, b, idx>>]

\* the split indices of cell (lv, p) that satisfy the constraint check for
\* the constraint set S
Satisfying(S, lv, p) ==
    {idx \in 0..(lv - 1) :
        /\ (idx = 0 \/ <<p, idx + 1>> \in S)
        /\ (idx = lv - 1 \/ <<p + idx + 1, lv - idx>> \in S)}

\* the cells the fill loop has completed
Filled(lv, p) == lv >= 1 /\ (lv < level \/ (lv = level /\ p < pos))
Cells == {c \in (1..(length - 1)) \X (0..(length - 1)) : c[1] + c[2] < length}

Returned(r) == pc = "done" /\ routine = r

\* the combined score of split idx of cell (lv, p) for batch element b, read
\* off the chart: left child + right child + split potential
Combined(b, lv, p, idx) ==
    chart[idx][p][b] + chart[lv - idx - 1][p + idx + 1][b] + scalars[<<lv, p, b, idx>>]

CombinedScores(b, lv, p) == {Combined(b, lv, p, idx) : idx \in 0..(lv - 1)}

\* the first split index of cell (lv, p) whose combined score is the maximum
FirstBest(b, lv, p) ==
    CHOOSE i \in 0..(lv - 1) :
        /\ Combined(b, lv, p, i) = MaxOf(CombinedScores(b, lv, p))
        /\ \A j \in 0..(i - 1) : Combined(b, lv, p, j) # MaxOf(CombinedScores(b, lv, p))

\* the call has tripped the assertion on batch element b's constraint set
RaisedFor(b) == pc = "error" /\ Book(b).raised

\* ------------------------------------------------------------------ C1
\* C1 as stated: with an empty constraint set the root score returned by
\* get_score_for_spans is the maximum over all bracketings of the sum of
\* the split potentials along the bracketing.
C1_RootIsBestPotentialSum ==
    Returned("get_score_for_spans") =>
        \A b \in Batch(batch_size) :
            span_sets[b] = {} => result[b] = BestPotentialSum(scalars, b, length)

\* C1 amended: with an empty constraint set the root score is that maximum
\* plus length times the leaf value 1 (every leaf cell holds 1, and the
\* cells add their children's values).
C1_RootIsLeavesPlusBestPotentialSum ==
    Returned("get_score_for_spans") =>
        \A b \in Batch(batch_size) :
            span_sets[b] = {} =>
                result[b] = length * LeafValue + BestPotentialSum(scalars, b, length)

\* a returned unconstrained call over four tokens in which the bracketings
\* differ in potential sum and the best one is not found greedily
C1_Witness ==
    /\ Returned("get_score_for_spans")
    /\ length = 4
    /\ \E b \in Batch(batch_size) :
         /\ span_sets[b] = {}
         /\ BestPotentialSum(scalars, b, length) = 2
         /\ \E T \in Bracketings(0, length) : PotentialSum(scalars, b, T) = 0
         /\ result[b] = 6

\* ------------------------------------------------------------------ C2
\* C2: when the constraint set of a batch element is the span set of the
\* tree the unconstrained run selects, get_score_for_spans trips no
\* assertion for that element and returns the root score of the
\* unconstrained run.
C2_ForcingArgmaxTreeIsIdempotent ==
    routine = "get_score_for_spans" =>
        \A b \in Batch(batch_size) :
            span_sets[b] = ArgmaxSpans(scalars, b, length - 1, 0) =>
                /\ pc = "error" => ~Book(b).raised
                /\ pc = "done" =>
                     result[b] = CellValue("get_score_for_spans", scalars, {}, b, length - 1, 0)

\* a returned call over four tokens whose constraint set is the three spans
\* of the argmax tree, that tree beating other bracketings
C2_Witness ==
    /\ Returned("get_score_for_spans")
    /\ length = 4
    /\ \E b \in Batch(batch_size) :
         /\ span_sets[b] = ArgmaxSpans(scalars, b, length - 1, 0)
         /\ Cardinality(span_sets[b]) = 3
         /\ result[b] = 6
         /\ \E T \in Bracketings(0, length) : PotentialSum(scalars, b, T) < 2

\* ------------------------------------------------------------------ C3
\* C3: in each of the three routines the fill loop never completes a cell
\* at which two split indices satisfy the constraint check of some batch
\* element, and a call that ended in the assertion returned no score.
C3_AmbiguousCellEndsInError ==
    /\ \A c \in Cells :
         Filled(c[1], c[2]) =>
            \A b \in Batch(batch_size) :
                Cardinality(Satisfying(span_sets[b], c[1], c[2])) <= 1
    /\ pc = "error" => result = <<>>
    /\ (\E c \in Cells, b \in Batch(batch_size) :
            Cardinality(Satisfying(span_sets[b], c[1], c[2])) >= 2) => pc # "done"

\* a call of get_score_for_spans_given stopped by the assertion at a cell
\* where two splits satisfy the check of the second batch element
C3_Witness ==
    /\ pc = "error"
    /\ routine = "get_score_for_spans_given"
    /\ batch_size = 2
    /\ Cardinality(Satisfying(span_sets[1], level, pos)) >= 2
    /\ Cardinality(Satisfying(span_sets[0], level, pos)) <= 1

\* ------------------------------------------------------------------ C4
\* C4 as stated: over four tokens, a constraint set containing (0,2) and
\* (0,3) makes the call raise at the level-3, pos-0 cell and return nothing.
C4_NestedPairRaisesAtRoot ==
    (length = 4 /\ \E b \in Batch(batch_size) : {<<0, 2>>, <<0, 3>>} \subseteq span_sets[b]) =>
        /\ pc \notin {"return", "done"}
        /\ pc = "error" => (level = 3 /\ pos = 0)

\* C4 amended: over four tokens, a constraint set containing (0,2) and
\* (0,3) raises only if it also contains (1,2), (1,3) or (2,2): at the
\* level-2, pos-0 cell with (1,2), else at the level-3, pos-0 cell.
\* Without those spans nothing is raised for the element and
\* get_score_for_spans returns the value of the left-branching tree.
C4_NestedPairRaisesOnlyWithCompetitor ==
    length = 4 =>
        \A b \in Batch(batch_size) :
            {<<0, 2>>, <<0, 3>>} \subseteq span_sets[b] =>
                IF span_sets[b] \cap {<<1, 2>>, <<1, 3>>, <<2, 2>>} = {}
                THEN /\ ~RaisedFor(b)
                     /\ Returned("get_score_for_spans") =>
                          result[b] = 4 * LeafValue + scalars[<<1, 0, b, 0>>]
                                      + scalars[<<2, 0, b, 1>>] + scalars[<<3, 0, b, 2>>]
                ELSE /\ pc \notin {"return", "done"}
                     /\ pc = "error" =>
                          IF <<1, 2>> \in span_sets[b]
                          THEN level = 2 /\ pos = 0
                          ELSE level = 3 /\ pos = 0

\* a call with the constraint set {(0,2), (0,3)} that returned a score below
\* the unconstrained maximum
C4_Witness ==
    /\ Returned("get_score_for_spans")
    /\ length = 4
    /\ span_sets[0] = {<<0, 2>>, <<0, 3>>}
    /\ result[0] < 4 * LeafValue + BestPotentialSum(scalars, 0, 4)

\* ------------------------------------------------------------------ C5
\* C5 as stated: over four tokens with the constraint set {(0,2)}, the
\* level-3 cell of get_score_for_spans holds the combined score of the
\* split with left child (0,2) and right child (2,2).
C5_SingleSpanForcesRootSplit ==
    (routine = "get_score_for_spans" /\ length = 4) =>
        \A b \in Batch(batch_size) :
            (span_sets[b] = {<<0, 2>>} /\ Filled(3, 0)) =>
                chart[3][0][b] = Combined(b, 3, 0, 1)

\* C5 amended: with the constraint set {(0,2)} nothing is raised, the
\* level-3 cell is not forced and holds the maximum of its three combined
\* scores; the cell the set forces is level 2, pos 0, which holds the score
\* of its split idx 1 (left (0,2), right the leaf (2,1)).  The level-3 cell
\* takes the (0,2)|(2,2) split when the set is {(0,2), (2,2)}.
C5_SingleSpanForcesItsParentOnly ==
    (routine = "get_score_for_spans" /\ length = 4) =>
        \A b \in Batch(batch_size) :
            /\ span_sets[b] = {<<0, 2>>} =>
                 /\ ~RaisedFor(b)
                 /\ Filled(2, 0) => chart[2][0][b] = Combined(b, 2, 0, 1)
                 /\ Filled(3, 0) => chart[3][0][b] = MaxOf(CombinedScores(b, 3, 0))
            /\ span_sets[b] = {<<0, 2>>, <<2, 2>>} =>
                 /\ ~RaisedFor(b)
                 /\ Filled(3, 0) => chart[3][0][b] = Combined(b, 3, 0, 1)

\* a returned call with the constraint set {(0,2)} whose level-3 cell beats
\* the (0,2)|(2,2) split and whose level-2, pos-0 cell is below its maximum
C5_Witness ==
    /\ Returned("get_score_for_spans")
    /\ length = 4
    /\ span_sets[0] = {<<0, 2>>}
    /\ chart[3][0][0] > Combined(0, 3, 0, 1)
    /\ chart[2][0][0] < MaxOf(CombinedScores(0, 2, 0))

\* ------------------------------------------------------------------ C6
\* C6 as stated: over four tokens with the constraint set {(0,2)}, every
\* cell other than the level-3 cell holds the value of the run with an
\* empty constraint set.
C6_OtherCellsAsUnconstrained ==
    (routine = "get_score_for_spans" /\ length = 4) =>
        \A b \in Batch(batch_size) :
            span_sets[b] = {<<0, 2>>} =>
                \A c \in Cells :
                    (Filled(c[1], c[2]) /\ c # <<3, 0>>) =>
                        chart[c[1]][c[2]][b] = CellValue(routine, scalars, {}, b, c[1], c[2])

\* C6 amended: with the constraint set {(0,2)}, every cell other than the
\* level-3 cell and the level-2, pos-0 cell holds the value of the run with
\* an empty constraint set; the level-2, pos-0 cell is forced to its split
\* idx 1 and holds that split's combined score.
C6_CellsOffTheForcedPathAsUnconstrained ==
    (routine = "get_score_for_spans" /\ length = 4) =>
        \A b \in Batch(batch_size) :
            span_sets[b] = {<<0, 2>>} =>
                /\ ~RaisedFor(b)
                /\ \A c \in Cells :
                     (Filled(c[1], c[2]) /\ c \notin {<<3, 0>>, <<2, 0>>}) =>
                        chart[c[1]][c[2]][b] = CellValue(routine, scalars, {}, b, c[1], c[2])
                /\ Filled(2, 0) =>
                     chart[2][0][b] = chart[1][0][b] + LeafValue + scalars[<<2, 0, b, 1>>]

\* a returned call with the constraint set {(0,2)} whose level-2, pos-0 cell
\* differs from the unconstrained run while the level-2, pos-1 cell, built
\* from a non-zero potential, does not
C6_Witness ==
    /\ Returned("get_score_for_spans")
    /\ length = 4
    /\ span_sets[0] = {<<0, 2>>}
    /\ chart[2][0][0] # CellValue(routine, scalars, {}, 0, 2, 0)
    /\ chart[2][1][0] = CellValue(routine, scalars, {}, 0, 2, 1)
    /\ chart[2][1][0] > 3 * LeafValue

\* ------------------------------------------------------------------ C7
\* C7: in get_score_for_spans every completed cell holds, for every batch
\* element, the combined score of the split that satisfies the element's
\* constraint check if there is one, and otherwise the combined score of
\* the first split index achieving the maximum, which is the maximum.
C7_OverrideElseFirstMaximum ==
    routine = "get_score_for_spans" =>
        \A c \in Cells :
            Filled(c[1], c[2]) =>
                \A b \in Batch(batch_size) :
                    LET sat == Satisfying(span_sets[b], c[1], c[2])
                    IN  IF sat # {}
                        THEN \A idx \in sat : chart[c[1]][c[2]][b] = Combined(b, c[1], c[2], idx)
                        ELSE /\ chart[c[1]][c[2]][b] = Combined(b, c[1], c[2], FirstBest(b, c[1], c[2]))
                             /\ chart[c[1]][c[2]][b] = MaxOf(CombinedScores(b, c[1], c[2]))

\* a run with one cell forced below its maximum and another, unforced cell
\* whose maximum is reached by a split other than the first
C7_Witness ==
    /\ routine = "get_score_for_spans"
    /\ \E c \in Cells, b \in Batch(batch_size) :
         /\ Filled(c[1], c[2])
         /\ Satisfying(span_sets[b], c[1], c[2]) # {}
         /\ chart[c[1]][c[2]][b] < MaxOf(CombinedScores(b, c[1], c[2]))
    /\ \E c \in Cells, b \in Batch(batch_size) :
         /\ Filled(c[1], c[2])
         /\ Satisfying(span_sets[b], c[1], c[2]) = {}
         /\ FirstBest(b, c[1], c[2]) > 0

\* ------------------------------------------------------------------ C8
\* C8: in get_score_for_spans_modified and get_score_for_spans_given every
\* completed cell holds, for every batch element, the combined score of the
\* split that satisfies the element's constraint check if there is one, and
\* otherwise the combined score of split index 0; a cell no split of which
\* satisfies the check raises nothing.
C8_ForcedElseSplitZero ==
    routine \in {"get_score_for_spans_modified", "get_score_for_spans_given"} =>
        /\ \A c \in Cells :
             Filled(c[1], c[2]) =>
                \A b \in Batch(batch_size) :
                    LET sat == Satisfying(span_sets[b], c[1], c[2])
                    IN  IF sat # {}
                        THEN \A idx \in sat : chart[c[1]][c[2]][b] = Combined(b, c[1], c[2], idx)
                        ELSE chart[c[1]][c[2]][b] = Combined(b, c[1], c[2], 0)
        /\ pc = "error" =>
             \E b \in Batch(batch_size) : Cardinality(Satisfying(span_sets[b], level, pos)) >= 2

\* a returned call of get_score_for_spans_given with a cell no split of
\* which satisfies the check, holding split 0's score below the maximum,
\* and a forced cell
C8_Witness ==
    /\ Returned("get_score_for_spans_given")
    /\ \E c \in Cells, b \in Batch(batch_size) :
         /\ Satisfying(span_sets[b], c[1], c[2]) = {}
         /\ chart[c[1]][c[2]][b] < MaxOf(CombinedScores(b, c[1], c[2]))
    /\ \E c \in Cells, b \in Batch(batch_size) :
         /\ c[1] >= 2
         /\ Satisfying(span_sets[b], c[1], c[2]) # {}

\* ------------------------------------------------------------------ C9
\* C9: the multi-root query returns one list per batch element, with one
\* entry per root of the element's root list, in the same order; the entry
\* for root (pos, size) is the final chart value chart[size-1][pos] of that
\* batch element.  An empty root list yields an empty list.
C9_OneScorePerRootInOrder ==
    (pc = "done" /\ routine \in {"get_score_for_spans_modified", "get_score_for_spans_given"}) =>
        /\ DOMAIN result = Batch(batch_size)
        /\ \A b \in Batch(batch_size) :
             /\ Len(result[b]) = Len(root_list[b])
             /\ root_list[b] = <<>> => result[b] = <<>>
             /\ \A i \in 1..Len(root_list[b]) :
                  LET root_pos == root_list[b][i][1]
                      root_size == root_list[b][i][2]
                  IN  /\ result[b][i] = chart[root_size - 1][root_pos][b]
                      /\ result[b][i] =
                            CellValue(routine, scalars, span_sets[b], b, root_size - 1, root_pos)

\* a returned multi-root query over a batch of two in which both elements
\* ask for the same root and get different scores, the second element's
\* being its own
C9_Witness ==
    /\ Returned("get_score_for_spans_modified")
    /\ batch_size = 2
    /\ Len(root_list[0]) = 1
    /\ root_list[1] = root_list[0]
    /\ result[0][1] # result[1][1]
    /\ result[1][1] = chart[root_list[1][1][2] - 1][root_list[1][1][1]][1]

\* ------------------------------------------------------------------ C10
\* C10: when the constraint set of a batch element is the set of spans of
\* the internal nodes of a binary tree over the whole sentence,
\* get_score_for_spans trips no assertion for that element and returns the
\* value of that tree evaluated bottom-up.
C10_ScoreOfTheGivenTree ==
    routine = "get_score_for_spans" =>
        \A b \in Batch(batch_size) :
            \A T \in Bracketings(0, length) :
                span_sets[b] = SpansOf(T) =>
                    /\ ~RaisedFor(b)
                    /\ pc = "done" => result[b] = TreeValue(scalars, b, T, length - 1, 0)

\* a returned call over four tokens given the spans of a tree that is not
\* the best one: the score is below the unconstrained maximum
C10_Witness ==
    /\ Returned("get_score_for_spans")
    /\ length = 4
    /\ \E T \in Bracketings(0, length) :
         /\ span_sets[0] = SpansOf(T)
         /\ result[0] = TreeValue(scalars, 0, T, 3, 0)
         /\ result[0] < 4 * LeafValue + BestPotentialSum(scalars, 0, 4)
         /\ PotentialSum(scalars, 0, T) > 0

\* ================================================================ helpers
\* The span helpers of the trainer and of the training script, each a pure
\* function of its arguments.

\* additional bounds of the helper calls
MaxTree == 3       \* a tree span set of findParent holds at most MaxTree spans
MaxToks == 6       \* str_to_tuple reads at most MaxToks tokens
MaxItems == 2      \* precision_and_recall reads lists of at most MaxItems spans
MaxDepth == 3      \* the trees of tree_to_spans nest at most MaxDepth deep
MaxArity == 3      \* a node of a tree has at most MaxArity children

\* mx = 1000 in findParent
mx == 1000

\* root = None
None == <<>>

Helpers == {"findParent", "findClosestParent", "makeLeftTree", "makeRightTree",
            "precision_and_recall", "tree_to_spans", "str_to_tuple"}

\* all sequences without repetition of at most k elements of S: the orders
\* in which a set of at most k elements of S can be iterated
RECURSIVE Orders(_, _)
Orders(S, k) ==
    IF k = 0 THEN {<<>>}
    ELSE LET shorter == Orders(S, k - 1)
         IN  shorter \cup {Append(o[1], o[2]) : o \in {c \in shorter \X S : \A n \in DOMAIN c[1] : c[1][n] # c[2]}}

\* ---------------------------------------------------------------- findParent
\* if i <= int(span[0]) and (i+j-1) >= (int(span[0]) + span[1] - 1)
covers(t, span) == t[1] <= span[1] /\ (t[1] + t[2] - 1) >= (span[1] + span[2] - 1)

\* if i >= root[0] and i+j <= root[0]+root[1]
inside(t, root) == t[1] >= root[1] /\ t[1] + t[2] <= root[1] + root[2]

\* the loop `for i, j in tmp: if j < mx: mx = j; root = [i, j]` after n rounds
RECURSIVE root_loop(_, _)
root_loop(tmp, n) ==
    IF n = 0 THEN [mx |-> mx, root |-> None]
    ELSE LET before == root_loop(tmp, n - 1)
         IN  IF tmp[n][2] < before.mx
             THEN [mx |-> tmp[n][2], root |-> tmp[n]]
             ELSE before

\* findParent returning every tree span inside the target when the target
\* is in the tree
findParent_with_descendants(tree, span) ==
    LET in_tree == \E n \in DOMAIN tree : tree[n] = span
        tmp == SelectSeq(tree, LAMBDA t : covers(t, span))
        root == root_loop(tmp, Len(tmp)).root
    IN  IF in_tree
        THEN [kind |-> "return", root |-> span,
              children |-> SelectSeq(tree, LAMBDA t : inside(t, span))]
        ELSE IF root = None /\ tree # <<>>
        THEN [kind |-> "TypeError", root |-> None, children |-> <<>>]
        ELSE [kind |-> "return", root |-> root,
              children |-> SelectSeq(tree, LAMBDA t : inside(t, root))]

\* findParent(tree, span); `tree` is the set in the order in which Python
\* iterates it.  With root = None the first round of the last loop raises
\* TypeError ('NoneType' object is not subscriptable); with no round to run
\* (empty tree) the call returns (None, []).
findParent(tree, span) ==
    LET in_tree == \E n \in DOMAIN tree : tree[n] = span
        tmp == SelectSeq(tree, LAMBDA t : covers(t, span))
        root == root_loop(tmp, Len(tmp)).root
    IN  IF in_tree
        THEN [kind |-> "return", root |-> span, children |-> <<span>>]
        ELSE IF root = None /\ tree # <<>>
        THEN [kind |-> "TypeError", root |-> None, children |-> <<>>]
        ELSE [kind |-> "return", root |-> root,
              children |-> SelectSeq(tree, LAMBDA t : inside(t, root))]

\* the spans a tree of findParent is drawn from: the spans of a sentence of
\* MaxLen words and the span of a sentence of mx words
TreePool == Spans(MaxLen, 1) \cup {<<0, mx>>}

\* ------------------------------------------------------------ tree_to_spans
\* A parse tree: a word (anything that is not a list or tuple) or a tuple
\* of trees.
Leaf(s) == [leaf |-> TRUE, tok |-> s, kids |-> <<>>]
Node(ks) == [leaf |-> FALSE, tok |-> "", kids |-> ks]

RECURSIVE helper(_, _)
RECURSIVE kids_loop(_, _, _)
\* `for x in tr: xsize = helper(x, pos + size); size += xsize` after k
\* rounds: the size so far and the spans appended by the rounds
kids_loop(tr, p, k) ==
    IF k = 0 THEN [size |-> 0, spans |-> <<>>]
    ELSE LET before == kids_loop(tr, p, k - 1)
             x == helper(tr.kids[k], p + before.size)
         IN  [size |-> before.size + x.size, spans |-> before.spans \o x.spans]

\* helper appending a node's span before it visits the children
helper_preorder(tr, p) ==
    IF tr.leaf THEN [size |-> 1, spans |-> <<>>]
    ELSE LET done == kids_loop(tr, p, Len(tr.kids))
         IN  [size |-> done.size, spans |-> <<<<p, done.size>>>> \o done.spans]

\* helper(tr, pos), pos written p: the returned size and the spans the call appends
helper(tr, p) ==
    IF tr.leaf THEN [size |-> 1, spans |-> <<>>]
    ELSE LET done == kids_loop(tr, p, Len(tr.kids))
         IN  [size |-> done.size, spans |-> Append(done.spans, <<p, done.size>>)]

tree_to_spans(tr) == helper(tr, 0).spans

\* the trees with n leaves nested at most d deep, and the sequences of k
\* such trees with n leaves in all
RECURSIVE Trees(_, _)
RECURSIVE Forests(_, _, _)
Forests(n, k, d) ==
    IF k = 0 THEN (IF n = 0 THEN {<<>>} ELSE {})
    ELSE UNION {{<<t>> \o f : t \in Trees(m, d), f \in Forests(n - m, k - 1, d)} : m \in 1..n}

Trees(n, d) ==
    (IF n = 1 THEN {Leaf("w")} ELSE {})
    \cup (IF d = 0 THEN {} ELSE UNION {{Node(f) : f \in Forests(n, k, d - 1)} : k \in 1..MaxArity})

\* ------------------------------------------------------------- str_to_tuple
\* `while(stack and stack[-1]!='('): inside.appendleft(stack.pop())`
RECURSIVE pop_loop(_, _)
pop_loop(stack, inside_) ==
    IF stack # <<>> /\ stack[Len(stack)] # Leaf("(")
    THEN pop_loop(SubSeq(stack, 1, Len(stack) - 1), <<stack[Len(stack)]>> \o inside_)
    ELSE [stack |-> stack, inside |-> inside_]

\* one round of `for i, s in enumerate(tree)`
stack_step(stack, s) ==
    IF s # ")"
    THEN Append(stack, Leaf(s))
    ELSE LET popped == pop_loop(stack, <<>>)
             rest == IF popped.stack # <<>>
                     THEN SubSeq(popped.stack, 1, Len(popped.stack) - 1)
                     ELSE popped.stack
         IN  Append(rest, Node(popped.inside))

RECURSIVE stack_loop(_, _)
stack_loop(tree, n) ==
    IF n = 0 THEN <<>> ELSE stack_step(stack_loop(tree, n - 1), tree[n])

\* str_to_tuple(tr), with tree = tr.split(" "); the function has no raise
\* and no assertion: it returns the stack
str_to_tuple(tree) == [kind |-> "return", value |-> stack_loop(tree, Len(tree))]

Tokens == {"(", ")", "w"}

\* the token lists of 1..m tokens
TokenLists(m) == UNION {[1..k -> Tokens] : k \in 1..m}

\* ----------------------------------------------------- precision_and_recall
\* `for span in A: if span in B: count += 1`
RECURSIVE count_loop(_, _)
count_loop(A, B) ==
    IF A = {} THEN 0
    ELSE LET span == CHOOSE x \in A : TRUE
         IN  (IF span \in B THEN 1 ELSE 0) + count_loop(A \ {span}, B)

\* precision_and_recall counting over the lists as they are given
precision_and_recall_lists(gold, not_gold) ==
    <<Cardinality({n \in DOMAIN not_gold : not_gold[n] \in SetOf(gold)}),
      Cardinality({n \in DOMAIN gold : gold[n] \in SetOf(not_gold)}),
      Len(gold)>>

precision_and_recall(gold, not_gold) ==
    LET gold_span == SetOf(gold)
        not_gold_span == SetOf(not_gold)
    IN  <<count_loop(not_gold_span, gold_span),
          count_loop(gold_span, not_gold_span),
          Cardinality(gold_span)>>

\* the lists of at most m spans of a sentence of n words
ItemLists(n, m) == UNION {[1..k -> Spans(n, 2)] : k \in 0..m}

\* -------------------------------------------------------- findClosestParent
\* `for t in s: root, parent = self.findParent(...); tmp += parent;
\* tmp_root.append(root)` after k rounds; an exception of findParent ends
\* the loop
RECURSIVE ner_loop(_, _, _)
ner_loop(tree, s, k) ==
    IF k = 0 THEN [kind |-> "return", tmp |-> <<>>, tmp_root |-> <<>>]
    ELSE LET before == ner_loop(tree, s, k - 1)
             found == findParent(tree, s[k])
         IN  IF before.kind # "return" THEN before
             ELSE IF found.kind # "return"
             THEN [kind |-> found.kind, tmp |-> before.tmp, tmp_root |-> before.tmp_root]
             ELSE [kind |-> "return",
                   tmp |-> before.tmp \o found.children,
                   tmp_root |-> Append(before.tmp_root, found.root)]

\* findClosestParent(max_spans, ner_spans); max_spans[i] is given in the
\* order in which Python iterates set(max_spans[i])
findClosestParent(max_spans, ner_spans) ==
    LET per == [i \in DOMAIN ner_spans |-> ner_loop(max_spans[i], ner_spans[i], Len(ner_spans[i]))]
    IN  IF \E i \in DOMAIN ner_spans : per[i].kind # "return"
        THEN [kind |-> "TypeError", roots |-> <<>>, diora_spans |-> <<>>]
        ELSE [kind |-> "return",
              roots |-> [i \in DOMAIN ner_spans |-> per[i].tmp_root],
              diora_spans |-> [i \in DOMAIN ner_spans |-> per[i].tmp]]

\* the span lists of the binary trees over n words, in every iteration order
TreeSpanOrders(n) ==
    UNION {{o \in Orders(SpansOf(T), n - 1) : Len(o) = n - 1} : T \in Bracketings(0, n)}

\* the arguments of findClosestParent: one predicted tree and the annotated
\* spans per batch element
ClosestParentArgs ==
    UNION {UNION {{[max_spans |-> m, ner_spans |-> g] :
                      m \in [Batch(B) -> TreeSpanOrders(n)],
                      g \in SpanLists(n, B, 1, MaxGold)} :
                  n \in 1..(IF B > 1 THEN MaxBatchLen ELSE MaxLen)} :
           B \in 1..MaxBatch}

\* ------------------------------------------------------ the helper calls
\* the arguments of a call of helper f
HelperArgs(f) ==
    CASE f = "findParent" ->
            {[tree |-> o, span |-> sp] : o \in Orders(TreePool, MaxTree), sp \in Spans(MaxLen, 1)}
      [] f = "findClosestParent" -> ClosestParentArgs
      [] f \in {"makeLeftTree", "makeRightTree"} ->
            UNION {SpanLists(MaxLen, B, 1, MaxGold) : B \in 1..MaxBatch}
      [] f = "precision_and_recall" ->
            {[gold |-> g, not_gold |-> p] :
                g \in ItemLists(MaxLen, MaxItems), p \in ItemLists(MaxLen, MaxItems)}
      [] f = "tree_to_spans" ->
            UNION {Trees(n, MaxDepth) : n \in 1..MaxLen}
      [] f = "str_to_tuple" ->
            TokenLists(MaxToks)

\* A helper is about to be called on its arguments; no scoring call runs.
InitHelper ==
    /\ routine \in Helpers
    /\ args \in HelperArgs(routine)
    /\ length = 0
    /\ batch_size = 0
    /\ scalars = <<>>
    /\ span_sets = <<>>
    /\ root_list = <<>>
    /\ chart = <<>>
    /\ level = 0
    /\ pos = 0
    /\ pc = "call"
    /\ result = <<>>

\* Each helper runs to its end in one step and leaves what it returns (or
\* the exception it raises) in `result`.

\* findParent(set(max_spans[i]), span)
CallFindParent ==
    /\ pc = "call"
    /\ routine = "findParent"
    /\ result' = findParent(args.tree, args.span)
    /\ pc' = "done"
    /\ UNCHANGED <<routine, args, length, batch_size, scalars, span_sets, root_list, chart, level, pos>>

\* makeLeftTree(info['spans'])
CallMakeLeftTree ==
    /\ pc = "call"
    /\ routine = "makeLeftTree"
    /\ result' = makeLeftTree(args)
    /\ pc' = "done"
    /\ UNCHANGED <<routine, args, length, batch_size, scalars, span_sets, root_list, chart, level, pos>>

\* makeRightTree(info['spans'])
CallMakeRightTree ==
    /\ pc = "call"
    /\ routine = "makeRightTree"
    /\ result' = makeRightTree(args)
    /\ pc' = "done"
    /\ UNCHANGED <<routine, args, length, batch_size, scalars, span_sets, root_list, chart, level, pos>>

\* precision_and_recall(batch_spans, o_spans)
CallPrecisionAndRecall ==
    /\ pc = "call"
    /\ routine = "precision_and_recall"
    /\ result' = precision_and_recall(args.gold, args.not_gold)
    /\ pc' = "done"
    /\ UNCHANGED <<routine, args, length, batch_size, scalars, span_sets, root_list, chart, level, pos>>

\* tree_to_spans(x)
CallTreeToSpans ==
    /\ pc = "call"
    /\ routine = "tree_to_spans"
    /\ result' = tree_to_spans(args)
    /\ pc' = "done"
    /\ UNCHANGED <<routine, args, length, batch_size, scalars, span_sets, root_list, chart, level, pos>>

\* str_to_tuple(batch_map["parse_tree"][ii])
CallStrToTuple ==
    /\ pc = "call"
    /\ routine = "str_to_tuple"
    /\ result' = str_to_tuple(args)
    /\ pc' = "done"
    /\ UNCHANGED <<routine, args, length, batch_size, scalars, span_sets, root_list, chart, level, pos>>

\* roots, diora_spans = self.findClosestParent(max_spans, info['spans'])
CallFindClosestParent ==
    /\ pc = "call"
    /\ routine = "findClosestParent"
    /\ result' = findClosestParent(args.max_spans, args.ner_spans)
    /\ pc' = "done"
    /\ UNCHANGED <<routine, args, length, batch_size, scalars, span_sets, root_list, chart, level, pos>>

NextHelper ==
    \/ CallFindParent
    \/ CallFindClosestParent
    \/ CallMakeLeftTree
    \/ CallMakeRightTree
    \/ CallPrecisionAndRecall
    \/ CallTreeToSpans
    \/ CallStrToTuple

SpecHelper == InitHelper /\ [][NextHelper]_vars

\* a call of helper f has returned or raised
Called(f) == pc = "done" /\ routine = f

\* =========================================================== findParent claims
\* the tree span set of the findParent call and the tree spans covering the target
TreeSet == SetOf(args.tree)
Covering == {t \in TreeSet : covers(t, args.span)}

\* C11: when the target span is a member of the tree span set, findParent
\* returns the target span as root and the one-element list holding the
\* target span as children, whatever else the tree holds.
C11_TargetInTreeIsItsOwnParent ==
    (Called("findParent") /\ args.span \in TreeSet)
        => /\ result.kind = "return"
           /\ result.root = args.span
           /\ result.children = <<args.span>>

\* the target is in the tree together with a span nested inside it
C11_Witness ==
    /\ Called("findParent")
    /\ args.span \in TreeSet
    /\ \E t \in TreeSet : t # args.span /\ inside(t, args.span)
    /\ result.children = <<args.span>>

\* C12: when the target span is not in the tree span set and some tree span
\* covers it, findParent returns as root a covering span of minimal length
\* and as children exactly the tree spans inside the root's extent.
C12_RootIsSmallestCoveringSpan ==
    (Called("findParent") /\ args.span \notin TreeSet /\ Covering # {})
        => /\ result.kind = "return"
           /\ result.root \in Covering
           /\ \A t \in Covering : result.root[2] <= t[2]
           /\ SetOf(result.children) = {t \in TreeSet : inside(t, result.root)}
           /\ Len(result.children) = Cardinality(SetOf(result.children))

\* the same result whenever some covering span is shorter than mx
C12_HoldsBelowMx ==
    (Called("findParent") /\ args.span \notin TreeSet /\ \E t \in Covering : t[2] < mx)
        => /\ result.kind = "return"
           /\ result.root \in Covering
           /\ \A t \in Covering : result.root[2] <= t[2]
           /\ SetOf(result.children) = {t \in TreeSet : inside(t, result.root)}
           /\ Len(result.children) = Cardinality(SetOf(result.children))

\* the example of the claim: tree {(0,2),(2,2),(0,4)}, target (1,1)
C12_Example ==
    (Called("findParent") /\ TreeSet = {<<0, 2>>, <<2, 2>>, <<0, 4>>} /\ args.span = <<1, 1>>)
        => result = [kind |-> "return", root |-> <<0, 2>>, children |-> <<<<0, 2>>>>]

\* C13: when the target span is not in the tree span set and no tree span
\* covers it, findParent ends in an explicit "no enclosing constituent
\* found" error: it neither returns a None root nor raises by subscripting
\* the None root.
C13_NoCoverEndsInExplicitError ==
    (Called("findParent") /\ args.span \notin TreeSet /\ Covering = {})
        => result.kind = "NoEnclosingConstituent"

\* what the call does instead: None returned for the empty tree, TypeError
\* for every other tree
C13_NoCoverReturnsNoneOrTypeError ==
    (Called("findParent") /\ args.span \notin TreeSet /\ Covering = {})
        => /\ result.root = None
           /\ result.kind = IF TreeSet = {} THEN "return" ELSE "TypeError"

\* ===================================================== chain builder claims
\* the number of spans the chains of s[1..i-1] hold
RECURSIVE ChainOffset(_, _)
ChainOffset(s, i) ==
    IF i = 1 THEN 0
    ELSE ChainOffset(s, i - 1) + (IF s[i - 1][2] >= 1 THEN s[i - 1][2] - 1 ELSE 0)

\* C14: makeLeftTree returns one list per batch element; the list of element
\* b holds, for each span (start, length) of b in input order, the spans
\* (start,2), (start,3), ..., (start,length) in this order and nothing else
\* (so nothing for a span of length 1, the empty list for no spans, and no
\* span of another element).
C14_LeftChainsPerElementInOrder ==
    Called("makeLeftTree")
        => /\ DOMAIN result = DOMAIN args
           /\ \A b \in DOMAIN args :
                /\ Len(result[b]) = ChainOffset(args[b], Len(args[b]) + 1)
                /\ \A i \in DOMAIN args[b] : \A k \in 2..args[b][i][2] :
                      result[b][ChainOffset(args[b], i) + k - 1] = <<args[b][i][1], k>>

\* a batch of two: one element with two spans of length >= 2, the other with
\* no span and the empty list
C14_Witness ==
    /\ Called("makeLeftTree")
    /\ \E b, c \in DOMAIN args :
         /\ Len(args[b]) = 2
         /\ args[b][1][2] >= 2
         /\ args[b][2][2] >= 2
         /\ args[c] = <<>>
         /\ result[c] = <<>>
         /\ Len(result[b]) = args[b][1][2] + args[b][2][2] - 2

\* C15: makeRightTree returns, for each span (start, length) of an element
\* with end = start+length-1, the spans (end-1,2), (end-2,3), ...,
\* (start,length) in this order; each ends at `end` and lies inside the
\* span, and the last one is the span itself.
C15_RightChainsEndAtTheSpanEnd ==
    Called("makeRightTree")
        => /\ DOMAIN result = DOMAIN args
           /\ \A b \in DOMAIN args :
                /\ Len(result[b]) = ChainOffset(args[b], Len(args[b]) + 1)
                /\ \A i \in DOMAIN args[b] :
                      LET start == args[b][i][1]
                          l == args[b][i][2]
                          end == start + l - 1
                          off == ChainOffset(args[b], i)
                      IN  /\ \A k \in 1..(l - 1) :
                                /\ result[b][off + k] = <<end - k, k + 1>>
                                /\ result[b][off + k][1] + result[b][off + k][2] - 1 = end
                                /\ inside(result[b][off + k], args[b][i])
                          /\ l >= 2 => result[b][off + l - 1] = args[b][i]

\* an element with a span of length >= 3 that does not start at word 0,
\* after another span of the same element
C15_Witness ==
    /\ Called("makeRightTree")
    /\ \E b \in DOMAIN args :
         /\ Len(args[b]) = 2
         /\ args[b][1][2] >= 2
         /\ args[b][2][2] >= 3
         /\ args[b][2][1] >= 1
         /\ Len(result[b]) = args[b][1][2] + args[b][2][2] - 2

\* ============================================= evaluation counters and codec
\* C16: precision_and_recall(gold, predicted) reads both lists as sets and
\* returns (number of predicted spans that are gold spans, number of gold
\* spans that are predicted spans, number of distinct gold spans); for
\* gold = predicted all three equal the number of distinct gold spans.
C16_CountsOverSets ==
    Called("precision_and_recall")
        => LET G == SetOf(args.gold)
               P == SetOf(args.not_gold)
           IN  /\ result = <<Cardinality(P \cap G), Cardinality(G \cap P), Cardinality(G)>>
               /\ args.gold = args.not_gold
                    => result = <<Cardinality(G), Cardinality(G), Cardinality(G)>>

\* a gold list that repeats a span, compared with itself
C16_Witness ==
    /\ Called("precision_and_recall")
    /\ args.gold = args.not_gold
    /\ Len(args.gold) = 2
    /\ args.gold[1] = args.gold[2]
    /\ result = <<1, 1, 1>>

\* a strictly binary tree: every tuple has two children
RECURSIVE IsBinary(_)
IsBinary(tr) ==
    tr.leaf \/ (Len(tr.kids) = 2 /\ IsBinary(tr.kids[1]) /\ IsBinary(tr.kids[2]))

RECURSIVE NumLeaves(_)
NumLeaves(tr) ==
    IF tr.leaf THEN 1 ELSE SumOver([k \in DOMAIN tr.kids |-> NumLeaves(tr.kids[k])], DOMAIN tr.kids)

\* the spans (first leaf, number of leaves) of the internal nodes of a
\* binary tree whose first leaf is word p
RECURSIVE NodeSpans(_, _)
NodeSpans(tr, p) ==
    IF tr.leaf THEN {}
    ELSE {<<p, NumLeaves(tr)>>}
         \cup NodeSpans(tr.kids[1], p)
         \cup NodeSpans(tr.kids[2], p + NumLeaves(tr.kids[1]))

Disjoint(s, t) == s[1] + s[2] <= t[1] \/ t[1] + t[2] <= s[1]

\* C17: on a strictly binary tree with n leaves tree_to_spans returns n-1
\* pairwise distinct spans, exactly the spans of the internal nodes, every
\* node after all its descendants and the whole tree (0,n) last; any two of
\* them are nested or disjoint; a bare leaf gives the empty list.
C17_BinaryTreeGivesPostOrderSpans ==
    (Called("tree_to_spans") /\ IsBinary(args))
        => LET n == NumLeaves(args)
           IN  /\ Len(result) = n - 1
               /\ SetOf(result) = NodeSpans(args, 0)
               /\ Cardinality(SetOf(result)) = n - 1
               /\ \A i, j \in DOMAIN result :
                    /\ i < j => ~inside(result[j], result[i])
                    /\ \/ inside(result[i], result[j])
                       \/ inside(result[j], result[i])
                       \/ Disjoint(result[i], result[j])
               /\ n >= 2 => result[n - 1] = <<0, n>>
               /\ args.leaf => result = <<>>

\* the balanced tree of four words
C17_Witness ==
    /\ Called("tree_to_spans")
    /\ IsBinary(args)
    /\ NumLeaves(args) = 4
    /\ result = <<<<0, 2>>, <<2, 2>>, <<0, 4>>>>

\* ========================================================= bracket parser
\* the number of '(' still open after the first n tokens; below zero once a
\* ')' had no '(' to match
RECURSIVE OpenAfter(_, _)
OpenAfter(tree, n) ==
    IF n = 0 THEN 0
    ELSE OpenAfter(tree, n - 1)
         + (IF tree[n] = "(" THEN 1 ELSE IF tree[n] = ")" THEN -1 ELSE 0)

Balanced(tree) ==
    /\ \A n \in 0..Len(tree) : OpenAfter(tree, n) >= 0
    /\ OpenAfter(tree, Len(tree)) = 0

\* C18: on a token list with an unmatched '(' or an unmatched ')'
\* str_to_tuple ends in an error outcome; it does not return a partially
\* built stack.
C18_UnbalancedEndsInError ==
    (Called("str_to_tuple") /\ ~Balanced(args)) => result.kind = "error"

\* what the call does instead: it returns the stack, with the '(' tokens
\* left over or a tuple closed by the unmatched ')'
C18_UnbalancedReturnsTheStack ==
    /\ (Called("str_to_tuple") /\ ~Balanced(args)) => result.kind = "return"
    /\ (Called("str_to_tuple") /\ args = <<"(", "w">>)
            => result.value = <<Leaf("("), Leaf("w")>>
    /\ (Called("str_to_tuple") /\ args = <<"w", ")">>)
            => result.value = <<Node(<<Leaf("w")>>)>>
    /\ (Called("str_to_tuple") /\ args = <<")", "(">>)
            => result.value = <<Node(<<>>), Leaf("(")>>
    /\ (Called("str_to_tuple") /\ args = <<"(", "w", ")", ")">>)
            => result.value = <<Node(<<Node(<<Leaf("w")>>)>>)>>

\* on balanced text the stack holds the parsed items, e.g. ( ( w ) w )
C18_BalancedExample ==
    (Called("str_to_tuple") /\ args = <<"(", "(", "w", ")", "w", ")">>)
        => result.value = <<Node(<<Node(<<Leaf("w")>>), Leaf("w")>>)>>

\* ======================================================= potential shapes
\* the potential batch does not have the shape of the sentence length
MisShaped == routine \in Routines /\ DOMAIN scalars # Entries(length, batch_size)

\* C19: a scoring call whose potential batch does not have the shape implied
\* by the sequence length is rejected before any non-leaf chart cell is
\* computed: no cell beyond the first is reached, the chart keeps its
\* initial value and no score is returned.
C19_MisShapedIsRejectedBeforeTheFill ==
    MisShaped
        => /\ pc # "done"
           /\ level = 1
           /\ pos = 0
           /\ chart = NewChart(length, batch_size)

\* what the call does instead: potentials the fill never reads are ignored
\* and a result is returned; a missing potential stops the call at the first
\* cell that needs it, after the cells before it were written
C19_ExtraIgnoredMissingFoundLate ==
    MisShaped
        => /\ Entries(length, batch_size) \subseteq DOMAIN scalars => pc # "lookup_error"
           /\ pc = "lookup_error"
                => /\ Present < level
                   /\ \A c \in Cells : Filled(c[1], c[2]) =>
                         \A b \in Batch(batch_size) : \A idx \in 0..(c[1] - 1) :
                            <<c[1], c[2], b, idx>> \in DOMAIN scalars

\* a call with potentials laid out for a shorter sentence has written a cell
\* and then failed on a lookup
C19_PartFilledThenLookupError ==
    /\ MisShaped
    /\ pc = "lookup_error"
    /\ Filled(1, 0)
    /\ chart # NewChart(length, batch_size)

\* a call with potentials laid out for a longer sentence has returned
C19_ReturnedFromLargerBatch ==
    /\ MisShaped
    /\ pc = "done"
    /\ length >= 2
    /\ Entries(length, batch_size) \subseteq DOMAIN scalars

\* ====================================================== batch independence
\* Scoring batch element b alone: a batch of size 1 holding b's potentials
\* and b's constraint set.
AloneScalars(b) ==
    [e \in Entries(length, 1) |-> scalars[<<e[1], e[2], b, e[4]>>]]

\* the call on b alone ends in AssertionError("Only one valid tree.")
AloneRaises(b) ==
    \E c \in Cells : to_choose_loop(span_sets[b], c[1], c[2], c[1]).raised

\* what the call on b alone returns for its only element
AloneResult(b) ==
    IF routine = "get_score_for_spans"
    THEN CellValue(routine, AloneScalars(b), span_sets[b], 0, length - 1, 0)
    ELSE [i \in 1..Len(root_list[b]) |->
            CellValue(routine, AloneScalars(b), span_sets[b], 0,
                      root_list[b][i][2] - 1, root_list[b][i][1])]

\* C20 as stated: the outcome of a scoring call for batch element b is the
\* outcome of scoring b alone, an AssertionError where b alone raises and
\* b's own result where it does not, whatever the other elements hold.
C20_ElementOutcomeAsAlone ==
    routine \in Routines =>
        \A b \in Batch(batch_size) :
            /\ pc = "error" => AloneRaises(b)
            /\ pc = "done" => (~AloneRaises(b) /\ result[b] = AloneResult(b))

\* C20 (amended): a scoring call that returns gives every batch element the
\* result of scoring it alone; the call raises exactly when scoring some
\* element alone would raise, and then no element gets a result.
C20_ReturnedElementsAsAlone ==
    routine \in Routines =>
        /\ pc = "done" =>
              \A b \in Batch(batch_size) : ~AloneRaises(b) /\ result[b] = AloneResult(b)
        /\ pc = "error" => \E b \in Batch(batch_size) : AloneRaises(b)
        /\ (\E b \in Batch(batch_size) : AloneRaises(b)) => pc \in {"fill", "error"}

\* a returned call on a batch of two whose elements differ in potentials and
\* in constraint sets and get different results
C20_Witness ==
    /\ routine \in Routines
    /\ pc = "done"
    /\ batch_size = 2
    /\ span_sets[0] # span_sets[1]
    /\ AloneScalars(0) # AloneScalars(1)
    /\ result[0] # result[1]
    /\ result[1] = AloneResult(1)
    /\ routine # "get_score_for_spans" => Len(root_list[1]) >= 1

\* ============================================================ chart leaves
\* C21: every level-0 chart cell holds the leaf value 1 for every position
\* and batch element in every state of a scoring call, from the
\* initialisation to the return; a call on a sentence of length 1 returns
\* the leaf value.
C21_LeavesKeepTheIdentityValue ==
    routine \in Routines =>
        /\ \A p \in 0..(length - 1) : \A b \in Batch(batch_size) : chart[0][p][b] = LeafValue
        /\ (pc = "done" /\ length = 1) =>
              \A b \in Batch(batch_size) :
                 IF routine = "get_score_for_spans"
                 THEN result[b] = LeafValue
                 ELSE \A i \in DOMAIN result[b] : result[b][i] = LeafValue

\* a returned call on a longest sentence whose fill wrote a value other than
\* the leaf value right above the leaves
C21_Witness ==
    /\ routine \in Routines
    /\ pc = "done"
    /\ length = MaxLen
    /\ chart[1][0][0] # LeafValue
    /\ \A p \in 0..(length - 1) : chart[0][p][0] = LeafValue

\* ============================================================= fill order
\* the cells round idx of the idx loop reads at cell (lv, p), as <<level, pos>>
l_cell(lv, p, idx) == <<idx, p>>
r_cell(lv, p, idx) == <<lv - idx - 1, p + idx + 1>>

\* cell c lies inside the triangular chart
InChart(c) == c[1] \in 0..(length - 1) /\ c[2] \in 0..(length - c[1] - 1)

\* cell c holds its final value: a leaf, or a cell the fill loop has completed
Final(c) ==
    /\ c[1] = 0 \/ Filled(c[1], c[2])
    /\ \A b \in Batch(batch_size) :
          chart[c[1]][c[2]][b] = CellValue(routine, scalars, span_sets[b], b, c[1], c[2])

\* one step of a scoring call seen from the cell (level, pos) about to be computed
FillStep ==
    /\ pc = "fill" =>
          /\ InChart(<<level, pos>>)
          /\ level >= 1
          /\ ~Filled(level, pos)
          /\ chart[level][pos] = NewChart(length, batch_size)[level][pos]
          /\ \A c \in Cells :
                (c[1] < level \/ (c[1] = level /\ c[2] < pos)) <=> Filled(c[1], c[2])
          /\ \A idx \in 0..(level - 1) :
                LET l == l_cell(level, pos, idx)
                    r == r_cell(level, pos, idx)
                IN  /\ InChart(l) /\ InChart(r)
                    /\ l[1] < level /\ r[1] < level
                    /\ Final(l) /\ Final(r)
                    \* spans (l_pos, l_level + 1) and (r_pos, r_level + 1)
                    /\ l[2] = pos
                    /\ l[2] + (l[1] + 1) = r[2]
                    /\ r[2] + (r[1] + 1) = pos + level + 1
          /\ \A c \in Cells : Filled(c[1], c[2]) => chart'[c[1]][c[2]] = chart[c[1]][c[2]]
          /\ <<level', pos'>> # <<level, pos>> =>
                /\ \/ level' = level /\ pos' = pos + 1 /\ pos' < length - level
                   \/ level' = level + 1 /\ pos' = 0 /\ pos = length - level - 1
                /\ chart' = [chart EXCEPT ![level][pos] =
                      [b \in Batch(batch_size) |->
                          valmax(routine,
                                 [idx \in 0..(level - 1) |->
                                     chart[l_cell(level, pos, idx)[1]][l_cell(level, pos, idx)[2]][b]
                                     + chart[r_cell(level, pos, idx)[1]][r_cell(level, pos, idx)[2]][b]
                                     + scalars[<<level, pos, b, idx>>]],
                                 Book(b))]]
          /\ <<level', pos'>> = <<level, pos>> => chart' = chart
    /\ pc # "fill" => chart' = chart

\* C22: the fill loop visits the cells by increasing level and, within a
\* level, increasing pos; when cell (level, pos) is computed every cell it
\* reads, (idx, pos) and (level-idx-1, pos+idx+1), lies inside the chart at
\* a smaller level and holds its final value, the two child spans are
\* adjacent and cover the parent span, and a step writes the current cell
\* only, once, leaving every completed cell as it is.
C22_CellsFilledBottomUpOnce == [][FillStep]_vars

\* a returned call on a longest sentence: every cell up to the root was
\* computed, the root from cells of every lower level
C22_Witness ==
    /\ routine \in Routines
    /\ pc = "done"
    /\ length = MaxLen
    /\ \A c \in Cells : Filled(c[1], c[2]) \/ c = <<length - 1, 0>>
    /\ chart[length - 1][0] # NewChart(length, batch_size)[length - 1][0]

\* ===================================================== laminar constraints
\* any two spans of S are nested or disjoint
Laminar(S) == \A s, t \in S : inside(s, t) \/ inside(t, s) \/ Disjoint(s, t)

\* the right chains of the nested spans (0,4) and (0,2)
NestedRightChains == SetOf(makeRightTree(<<<<<<0, 4>>, <<0, 2>>>>>>)[1])

\* C23: with a laminar constraint set no cell has its assertion fail for the
\* batch element, so a call whose constraint sets are all laminar never ends
\* in "Only one valid tree."; the right chains of the nested spans (0,4) and
\* (0,2) are not laminar and a call holding them never returns.
C23_LaminarSetsNeverRaise ==
    routine \in Routines =>
        /\ \A b \in Batch(batch_size) :
              Laminar(span_sets[b]) =>
                 \A c \in Cells : ~to_choose_loop(span_sets[b], c[1], c[2], c[1]).raised
        /\ (\A b \in Batch(batch_size) : Laminar(span_sets[b])) => pc # "error"
        /\ (\E b \in Batch(batch_size) : span_sets[b] = NestedRightChains /\ length >= 4)
              => pc \in {"fill", "error"}

\* a returned call whose constraint set is the span set of a whole binary
\* tree over a longest sentence
C23_Witness ==
    /\ routine \in Routines
    /\ pc = "done"
    /\ length = MaxLen
    /\ \E b \in Batch(batch_size) :
         /\ Laminar(span_sets[b])
         /\ Cardinality(span_sets[b]) = length - 1

\* the call holding the right chains of (0,4) and (0,2) has raised
C23_NestedChainsRaised ==
    /\ routine \in Routines
    /\ pc = "error"
    /\ \E b \in Batch(batch_size) : span_sets[b] = NestedRightChains

\* the children lists findClosestParent builds from the spans of one binary
\* tree are spans of that tree, hence a laminar set
C23_ChildrenListsAreLaminar ==
    (Called("findClosestParent") /\ result.kind = "return")
        => \A i \in DOMAIN args.ner_spans :
              /\ SetOf(result.diora_spans[i]) \subseteq SetOf(args.max_spans[i])
              /\ Laminar(SetOf(args.max_spans[i]))
              /\ Laminar(SetOf(result.diora_spans[i]))
              /\ Len(result.roots[i]) = Len(args.ner_spans[i])

\* ================================================ constrained vs unconstrained
\* the value get_score_for_spans stores in cell (lv, p) for batch element b
\* in the run with an empty constraint set
Unconstrained(b, lv, p) == CellValue("get_score_for_spans", scalars, {}, b, lv, p)

\* max_scores[b] of forward when the max tree is the unconstrained argmax tree
MaxScore(b) ==
    CellValue("get_score_for_spans", scalars,
              ArgmaxSpans(scalars, b, length - 1, 0), b, length - 1, 0)

\* C24: in get_score_for_spans every completed chart cell of a call that has
\* not raised holds at most the value of the same cell in the run with an
\* empty constraint set; so the returned root score is at most the score of
\* the unconstrained argmax tree and max_score - gold_score is >= 0.
C24_ConstrainedAtMostUnconstrained ==
    routine = "get_score_for_spans" =>
        \A b \in Batch(batch_size) :
            /\ \A c \in Cells :
                  Filled(c[1], c[2]) => chart[c[1]][c[2]][b] <= Unconstrained(b, c[1], c[2])
            /\ pc = "done" =>
                  /\ result[b] <= Unconstrained(b, length - 1, 0)
                  /\ MaxScore(b) = Unconstrained(b, length - 1, 0)
                  /\ MaxScore(b) - result[b] >= 0

\* a returned call whose constraints cost score: the root is strictly below
\* the unconstrained root
C24_Witness ==
    /\ routine = "get_score_for_spans"
    /\ pc = "done"
    /\ \E b \in Batch(batch_size) :
         /\ span_sets[b] # {}
         /\ result[b] < Unconstrained(b, length - 1, 0)
         /\ MaxScore(b) - result[b] > 0

\* ==================================================== modified versus given
\* the other one of get_score_for_spans_modified and get_score_for_spans_given
Twin(r) ==
    IF r = "get_score_for_spans_modified"
    THEN "get_score_for_spans_given"
    ELSE "get_score_for_spans_modified"

\* the twin routine, called with the same arguments, raises at cell (lv, p)
TwinRaisesAt(lv, p) ==
    \E b \in Batch(batch_size) : to_choose_loop(span_sets[b], lv, p, lv).raised

\* C25: get_score_for_spans_modified and get_score_for_spans_given called
\* with the same arguments fill the same chart, raise the ambiguity error at
\* the same cell or not at all, and return the same score lists.
C25_ModifiedAndGivenAgree ==
    routine \in {"get_score_for_spans_modified", "get_score_for_spans_given"} =>
        /\ \A c \in Cells : \A b \in Batch(batch_size) :
              Filled(c[1], c[2]) =>
                 chart[c[1]][c[2]][b] = CellValue(Twin(routine), scalars, span_sets[b], b, c[1], c[2])
        /\ \A c \in Cells : Filled(c[1], c[2]) => ~TwinRaisesAt(c[1], c[2])
        /\ pc = "error" => TwinRaisesAt(level, pos)
        /\ pc \in {"return", "done"} => \A c \in Cells : ~TwinRaisesAt(c[1], c[2])
        /\ pc = "done" =>
              \A b \in Batch(batch_size) :
                 /\ Len(result[b]) = Len(root_list[b])
                 /\ \A i \in 1..Len(root_list[b]) :
                       result[b][i] = CellValue(Twin(routine), scalars, span_sets[b], b,
                                                root_list[b][i][2] - 1, root_list[b][i][1])

\* a returned call of get_score_for_spans_given on a batch of two with a
\* forced split other than 0 and a root asked for above the leaves
C25_Witness ==
    /\ routine = "get_score_for_spans_given"
    /\ pc = "done"
    /\ batch_size = 2
    /\ \E b \in Batch(batch_size) :
         /\ \E c \in Cells : to_choose_loop(span_sets[b], c[1], c[2], c[1]).to_choose # 0
         /\ \E i \in 1..Len(root_list[b]) : root_list[b][i][2] >= 2

\* ================================================ chains in constrained mode
\* the value of the fully right-branching tree over the span (p, size) for
\* batch element b: split index 0 at every cell
RECURSIVE RightBranchValue(_, _, _)
RightBranchValue(b, p, size) ==
    IF size = 1 THEN LeafValue
    ELSE LeafValue + RightBranchValue(b, p + 1, size - 1) + scalars[<<size - 1, p, b, 0>>]

\* the value of the fully left-branching tree over the span (p, size): the
\* last split index at every cell
RECURSIVE LeftBranchValue(_, _, _)
LeftBranchValue(b, p, size) ==
    IF size = 1 THEN LeafValue
    ELSE LeftBranchValue(b, p, size - 1) + LeafValue + scalars[<<size - 1, p, b, size - 2>>]

PairwiseDisjoint(seq) ==
    \A i, j \in DOMAIN seq : i # j => Disjoint(seq[i], seq[j])

\* the score the call reports at the span sp for batch element b once the
\* fill has passed the span's cell: chart[size - 1][pos][b]
ScoreAt(b, sp) == chart[sp[2] - 1][sp[1]][b]
Passed(sp) == sp[2] = 1 \/ Filled(sp[2] - 1, sp[1])

\* C26: in get_score_for_spans_modified, for a batch element b whose gold
\* spans are pairwise disjoint: with the right chains of the gold spans as
\* constraints the score at each gold span (s, l) of b is the value of the
\* fully right-branching tree over (s, l), the same as with an empty
\* constraint set; with the left chains it is the value of the fully
\* left-branching tree over (s, l).  The call does not raise when this
\* holds of every batch element.
C26_ChainsScoreTheBranchingTrees ==
    routine = "get_score_for_spans_modified" =>
        \A gold \in GoldLists :
            /\ ( /\ \A b \in Batch(batch_size) : PairwiseDisjoint(gold[b])
                 /\ span_sets \in {SpanSets(makeRightTree(gold)), SpanSets(makeLeftTree(gold))} )
                   => pc # "error"
            /\ \A b \in Batch(batch_size) : \A i \in DOMAIN gold[b] :
                  PairwiseDisjoint(gold[b]) =>
                      /\ span_sets = SpanSets(makeRightTree(gold)) =>
                            /\ Passed(gold[b][i]) =>
                                  /\ ScoreAt(b, gold[b][i])
                                        = RightBranchValue(b, gold[b][i][1], gold[b][i][2])
                                  /\ ScoreAt(b, gold[b][i])
                                        = CellValue(routine, scalars, {}, b,
                                                    gold[b][i][2] - 1, gold[b][i][1])
                            /\ (pc = "done" /\ root_list = gold) =>
                                  result[b][i] = RightBranchValue(b, gold[b][i][1], gold[b][i][2])
                      /\ span_sets = SpanSets(makeLeftTree(gold)) =>
                            /\ Passed(gold[b][i]) =>
                                  ScoreAt(b, gold[b][i])
                                     = LeftBranchValue(b, gold[b][i][1], gold[b][i][2])
                            /\ (pc = "done" /\ root_list = gold) =>
                                  result[b][i] = LeftBranchValue(b, gold[b][i][1], gold[b][i][2])

\* a returned call constrained by the right chain of a gold span of three
\* words or more, asked for the score at that span, where the
\* right-branching and the left-branching value differ
C26_Witness ==
    /\ routine = "get_score_for_spans_modified"
    /\ pc = "done"
    /\ \E b \in Batch(batch_size) :
         /\ Len(root_list[b]) >= 1
         /\ root_list[b][1][2] >= 3
         /\ span_sets = SpanSets(makeRightTree(root_list))
         /\ result[b][1] = RightBranchValue(b, root_list[b][1][1], root_list[b][1][2])
         /\ result[b][1] # LeftBranchValue(b, root_list[b][1][1], root_list[b][1][2])
\* ================================================================ run_train
\* The span counters of run_train (train.py 189-302).  The network and the
\* CKY parser are inputs: every batch comes with its annotated spans
\* (batch_map['spans']) and every sentence with the tree the parser
\* predicts for it (binary) and its annotated parse tree
\* (parse_tree_tuple[0], of any arity).
MaxEpoch == 2      \* options.max_epoch is at most MaxEpoch
MaxBatches == 2    \* the train iterator yields at most MaxBatches batches an epoch
MaxWords == 3      \* a training sentence has at most MaxWords words
MaxNest == 2       \* its trees are nested at most MaxNest deep
MaxStep == 2       \* options.max_step, when given, is at most MaxStep

\* a tree in which every node that is not a word has two children
RECURSIVE IsBinaryTree(_)
IsBinaryTree(tr) ==
    tr.leaf \/ (Len(tr.kids) = 2 /\ \A k \in 1..2 : IsBinaryTree(tr.kids[k]))

\* the trees parse_batch can return for a sentence of n words
PredictedTrees(n) == {tr \in Trees(n, MaxNest) : IsBinaryTree(tr)}

\* the annotated parse trees of a sentence of n words
GoldTrees(n) == Trees(n, MaxNest)

\* options.max_step: None, or <<k>> for the number k
MaxSteps == {None} \cup {<<k>> : k \in 1..MaxStep}

\* options.reconstruct_mode, 'softmax' scoring no spans like 'margin'
ReconstructModes == {"margin", "semi"}

\* trainer.step(batch_map) under SemiSupervisedParsingLoss.forward:
\* get_score_for_spans(sentences, saved_scalars, makeRightTree(info['spans']))
\* ends in AssertionError("Only one valid tree.") in some cell of the chart
step_raises(n, spans) ==
    LET gold_spans_r == SpanSets(makeRightTree(spans))
    IN  \E b \in DOMAIN gold_spans_r :
            \E lv \in 1..(n - 1) : \E p \in 0..(n - 1 - lv) :
                to_choose_loop(gold_spans_r[b], lv, p, lv).raised

\* run_train is entered; no counter is assigned yet (`result` is None)
InitTrain ==
    /\ routine = "run_train"
    /\ \E me \in 0..MaxEpoch, ms \in MaxSteps, rm \in ReconstructModes :
         args = [max_epoch |-> me, max_step |-> ms, reconstruct_mode |-> rm,
                 epoch |-> 0, step |-> 0, drawn |-> 0, size |-> 0, ii |-> 0,
                 batch_spans |-> None, o_spans |-> None]
    /\ length = 0
    /\ batch_size = 0
    /\ scalars = <<>>
    /\ span_sets = <<>>
    /\ root_list = <<>>
    /\ chart = <<>>
    /\ level = 0
    /\ pos = 0
    /\ pc = "epoch"
    /\ result = None

\* `for epoch, seed in zip(range(options.max_epoch), seeds)`: the head of
\* an epoch sets precision, recall, total_len and count_des to 0 and opens
\* the iterator; p, r, t and the span lists of the last sentence stay
StartEpoch ==
    /\ pc = "epoch"
    /\ args.epoch < args.max_epoch
    /\ result' = [precision |-> 0, recall |-> 0, total_len |-> 0, count_des |-> 0,
                  prt |-> IF args.epoch = 0 THEN None ELSE result.prt]
    /\ args' = [args EXCEPT !.drawn = 0]
    /\ pc' = "iterate"
    /\ UNCHANGED <<routine, length, batch_size, scalars, span_sets, root_list, chart, level, pos>>

\* the epoch loop has run options.max_epoch times: run_train returns
ReturnTrain ==
    /\ pc = "epoch"
    /\ args.epoch >= args.max_epoch
    /\ pc' = "done"
    /\ UNCHANGED <<routine, args, length, batch_size, scalars, span_sets, root_list, chart, level, pos, result>>

\* myiterator: `if batch_map['length'] <= 2: continue`
SkipShortBatch ==
    /\ pc = "iterate"
    /\ args.drawn < MaxBatches
    /\ \E n \in 1..2 : length' = n
    /\ args' = [args EXCEPT !.drawn = @ + 1]
    /\ UNCHANGED <<routine, batch_size, scalars, span_sets, root_list, chart, level, pos, pc, result>>

\* myiterator yields a batch of sentences of more than two words and
\* trainer.step runs on it: parse_batch gives one tree per sentence
TakeBatch ==
    /\ pc = "iterate"
    /\ args.drawn < MaxBatches
    /\ \E n \in 3..MaxWords, B \in 1..MaxBatch :
         \E spans \in SpanLists(n, B, 1, MaxGold) :
            /\ ~(args.reconstruct_mode = "semi" /\ step_raises(n, spans))
            /\ length' = n
            /\ args' = [args EXCEPT !.drawn = @ + 1, !.size = B, !.ii = 0]
    /\ pc' = "sentence"
    /\ UNCHANGED <<routine, batch_size, scalars, span_sets, root_list, chart, level, pos, result>>

\* trainer.step fails on the batch the iterator yields: the loss raises
\* AssertionError("Only one valid tree.") and Trainer.step raises it again
\* (ngpus = 1) or leaves by sys.exit() (ngpus > 1); run_train ends
StepFails ==
    /\ pc = "iterate"
    /\ args.drawn < MaxBatches
    /\ args.reconstruct_mode = "semi"
    /\ \E n \in 3..MaxWords, B \in 1..MaxBatch :
         \E spans \in SpanLists(n, B, 1, MaxGold) :
            /\ step_raises(n, spans)
            /\ length' = n
    /\ args' = [args EXCEPT !.drawn = @ + 1]
    /\ \E ngpus \in 1..2 : pc' = IF ngpus > 1 THEN "SystemExit" ELSE "AssertionError"
    /\ UNCHANGED <<routine, batch_size, scalars, span_sets, root_list, chart, level, pos, result>>

\* one round of `for ii, tr in enumerate(trees)`: the spans of the two
\* trees are compared and the three counters take the three counts; after
\* the last sentence of the batch `step += 1`
ProcessSentence ==
    /\ pc = "sentence"
    /\ args.ii < args.size
    /\ \E tr \in PredictedTrees(length), parse_tree \in GoldTrees(length) :
         LET o_spans == tree_to_spans(tr)
             batch_spans == tree_to_spans(parse_tree)
             prt == precision_and_recall(batch_spans, o_spans)
         IN  /\ result' = [result EXCEPT !.precision = @ + prt[1],
                                         !.recall = @ + prt[2],
                                         !.total_len = @ + prt[3],
                                         !.prt = prt]
             /\ args' = [args EXCEPT !.ii = @ + 1,
                                     !.step = IF args.ii + 1 = args.size THEN @ + 1 ELSE @,
                                     !.batch_spans = batch_spans, !.o_spans = o_spans]
    /\ pc' = IF args.ii + 1 = args.size THEN "iterate" ELSE "sentence"
    /\ UNCHANGED <<routine, length, batch_size, scalars, span_sets, root_list, chart, level, pos>>

\* the iterator is exhausted: `print(precision/total_len, recall/total_len)`
\* raises ZeroDivisionError when the epoch counted no gold span; with
\* options.max_step reached run_train leaves by sys.exit(); else the epoch
\* loop moves on
EndEpoch ==
    /\ pc = "iterate"
    /\ IF result.total_len = 0
       THEN /\ pc' = "ZeroDivisionError"
            /\ UNCHANGED args
       ELSE IF args.max_step # None /\ args.step >= args.max_step[1]
       THEN /\ pc' = "SystemExit"
            /\ UNCHANGED args
       ELSE /\ pc' = "epoch"
            /\ args' = [args EXCEPT !.epoch = @ + 1]
    /\ UNCHANGED <<routine, length, batch_size, scalars, span_sets, root_list, chart, level, pos, result>>

NextTrain ==
    \/ StartEpoch
    \/ ReturnTrain
    \/ SkipShortBatch
    \/ TakeBatch
    \/ StepFails
    \/ ProcessSentence
    \/ EndEpoch

SpecTrain == InitTrain /\ [][NextTrain]_vars

\* the counters are assigned: an epoch has started
CountersSet == ~(args.epoch = 0 /\ pc \in {"epoch", "done"})

\* C27: for every pair of span lists the first two values returned by
\* precision_and_recall are equal, both the number of spans the two span
\* sets share, and neither exceeds the third (the number of distinct gold
\* spans) nor the number of distinct predicted spans; so in run_train,
\* after any number of processed sentences of an epoch, the precision
\* counter equals the recall counter and is at most total_len, and the
\* three counters are 0 when an epoch starts.
C27_PrecisionEqualsRecallAtMostTotal ==
    /\ \A gold, not_gold \in ItemLists(MaxWords, MaxItems) :
         LET prt == precision_and_recall(gold, not_gold)
         IN  /\ prt[1] = prt[2]
             /\ prt[1] = Cardinality(SetOf(gold) \cap SetOf(not_gold))
             /\ prt[1] <= prt[3]
             /\ prt[1] <= Cardinality(SetOf(not_gold))
    /\ (routine = "run_train" /\ CountersSet) =>
         /\ result.prt # None =>
               /\ result.prt[1] = result.prt[2]
               /\ result.prt[1] = Cardinality(SetOf(args.batch_spans) \cap SetOf(args.o_spans))
               /\ result.prt[1] <= result.prt[3]
               /\ result.prt[1] <= Cardinality(SetOf(args.o_spans))
         /\ result.precision = result.recall
         /\ result.precision <= result.total_len
         /\ (pc = "iterate" /\ args.drawn = 0) =>
               /\ result.precision = 0
               /\ result.recall = 0
               /\ result.total_len = 0

\* the second epoch has processed sentences, the last of them with a parse
\* tree that lists a span twice, and the parser has missed gold spans
C27_Witness ==
    /\ routine = "run_train"
    /\ args.epoch = 1
    /\ pc = "iterate"
    /\ args.drawn >= 1
    /\ Len(args.batch_spans) > Cardinality(SetOf(args.batch_spans))
    /\ result.precision >= 2
    /\ result.precision < result.total_len

====
